---- MODULE Spec2Model ----
(***************************************************************************)
(* Verification model of the HeartDiseaseAI training harness.              *)
(*                                                                         *)
(*   SpecLoss  - the crop helpers and the branch selection of              *)
(*               BCEDiceLoss.forward            (src/losses.py)            *)
(*   SpecBatch - one batch iteration of train() / validate() and their     *)
(*               return values                  (src/Unet_/main.py)        *)
(*   SpecMain  - the epoch loop of main()       (src/Unet_/main.py)        *)
(*                                                                         *)
(* Tensors, losses and metrics are computed by torch, by the criterion and *)
(* by iou_score, none of which is part of the two source files.  They are  *)
(* represented by the requests made to them (crop boxes, branch taken) and *)
(* by values drawn from small ordered sets (loss and IoU levels).          *)
(***************************************************************************)
EXTENDS Integers, Sequences, FiniteSets, TLC

VARIABLES
    \* ---- losses.py: the last helper call and what it did
    call,
    \* ---- train()/validate(): one pass over a loader
    bpc, mode, deep_supervision, batches, outputs, loss, ji, backward,
    avg_meters, updates, ret, braised,
    \* ---- main(): the epoch loop
    pc, config, epoch, best_iou, trigger, log, csv, saves, released,
    sched_calls, val_hist, raised, train_log, val_log

lossVars  == <<call>>
batchVars == <<bpc, mode, deep_supervision, batches, outputs, loss, ji,
               backward, avg_meters, updates, ret, braised>>
mainVars  == <<pc, config, epoch, best_iou, trigger, log, csv, saves,
               released, sched_calls, val_hist, raised, train_log, val_log>>
vars      == <<lossVars, batchVars, mainVars>>

-----------------------------------------------------------------------------
(* Bounds *)

Slack == 1
MaxBatch == 3
MaxOutputs == 3
MaxLevel == 2
MaxBatches == 2
MaxEpochs == 2
MaxPatience == 2

-----------------------------------------------------------------------------
(* src/losses.py *)

\* the padded canvas the crop helpers assume (literals 768 and 1024)
CanvasH == 768
CanvasW == 1024

\* sample sizes tried: the ones around the canvas size, the smallest ones,
\* one side small and the other full, and the example 512 x 768
Shapes ==
    {<<CanvasH - d, CanvasW - d>> : d \in (-Slack) .. Slack}
    \cup {<<d, d>> : d \in 1 .. Slack}
    \cup {<<d, CanvasW>> : d \in 1 .. Slack}
    \cup {<<CanvasH, d>> : d \in 1 .. Slack}
    \cup {<<512, 768>>}

\* int(x / 2): true division, then truncation towards zero
IntHalf(x) == IF x >= 0 THEN x \div 2 ELSE -((-x) \div 2)

\* transF.crop(img, top, left, height, width) as called with
\* (img, dw, dh, h, w): the request made for one image
CropRequest(img, dw, dh, h, w) ==
    [img |-> img, top |-> dw, left |-> dh, height |-> h, width |-> w,
     dh |-> dh, dw |-> dw]

\* one sample of a batch tensor: x[i], target[i], torch.softmax(x[i], dim = 0)
Sample(name, i) == [name |-> name, i |-> i]

\* BCELoss._crop(img, input_shape)
BCELoss_crop(img, input_shape) ==
    LET h == input_shape[1]
        w == input_shape[2]
        dh == IntHalf(CanvasH - h)
        dw == IntHalf(CanvasW - w)
    IN  CropRequest(img, dw, dh, h, w)

\* the offsets rounded up instead of down
BCEDiceLoss_crop_single_ceil(img, input_shape) ==
    LET h == input_shape[1]
        w == input_shape[2]
        dh == IntHalf(CanvasH - h + 1)
        dw == IntHalf(CanvasW - w + 1)
    IN  CropRequest(img, dw, dh, h, w)

\* BCEDiceLoss._crop_single(img, input_shape)
BCEDiceLoss_crop_single(img, input_shape) ==
    LET h == input_shape[1]
        w == input_shape[2]
        dh == IntHalf(CanvasH - h)
        dw == IntHalf(CanvasW - w)
    IN  CropRequest(img, dw, dh, h, w)

\* values a helper can hand back: None, or a tensor made of cropped pieces
\* (torch.cat along dim 1 appends the pieces)
NoneValue == [kind |-> "None", parts |-> <<>>]
Cropped(parts) == [kind |-> "Cropped", parts |-> parts]
Whole(name) == [kind |-> "Whole", parts |-> <<[img |-> name]>>]

\* BCEDiceLoss._crop_batch(img, input_shape) for a batch of n samples
\* (`n = img.size[0] # batch size`, read as the comment says: what
\* subscripting `size` does depends on the type of img, which torch
\* defines); input_shape is the pair
\* (heights, widths), each indexed by sample (0-based in the source, 1-based
\* here).  The result records the value returned and every crop requested.
BCEDiceLoss_crop_batch(img, n, input_shape) ==
    LET CropOf(i) ==
            LET h == input_shape[1][i + 1]
                w == input_shape[2][i + 1]
                dh == IntHalf(CanvasH - h)
                dw == IntHalf(CanvasW - w)
            IN  CropRequest(Sample(img, i), dw, dh, h, w)
        first == CropOf(0)
    IN  IF n > 1
        THEN \* first iteration of `for i in range(1, n)`: cat, then return
             [returned |-> Cropped(<<first, CropOf(1)>>),
              crops |-> <<first, CropOf(1)>>]
        ELSE \* the loop body never runs and the function ends without return
             [returned |-> NoneValue, crops |-> <<first>>]

\* the per-sample loops of forward: crop sample i of x (softmaxed or raw)
\* and of target with _crop_single, for i in range(n)
PerSampleCrops(xname, n, input_shape) ==
    [i \in 1 .. n |->
        LET shape == <<input_shape[1][i], input_shape[2][i]>>
        IN  [x |-> BCEDiceLoss_crop_single(Sample(xname, i - 1), shape),
             target |-> BCEDiceLoss_crop_single(Sample("target", i - 1), shape)]]

\* the three computations forward can end in
SoftmaxBranch(n, input_shape) ==
    LET c == PerSampleCrops("softmax(x)", n, input_shape)
    IN  [branch |-> "per_sample_softmax",
         bce |-> "binary_cross_entropy(weights[i])",
         x |-> Cropped([i \in 1 .. n |-> c[i].x]),
         target |-> Cropped([i \in 1 .. n |-> c[i].target]),
         batch_crops |-> <<>>]

CroppedBranch(n, input_shape) ==
    LET c == PerSampleCrops("x", n, input_shape)
    IN  [branch |-> "per_sample_logits",
         bce |-> "binary_cross_entropy_with_logits",
         x |-> Cropped([i \in 1 .. n |-> c[i].x]),
         target |-> Cropped([i \in 1 .. n |-> c[i].target]),
         batch_crops |-> <<>>]

UncroppedFormula(x, target, batch_crops) ==
    [branch |-> "uncropped",
     bce |-> "binary_cross_entropy_with_logits",
     x |-> x, target |-> target, batch_crops |-> batch_crops]

\* forward with the crop_batch test taking precedence over the softmax test
BCEDiceLoss_forward_batch_first(crop, softmax, crop_batch, n, input_shape) ==
    IF crop
    THEN IF crop_batch
         THEN LET bx == BCEDiceLoss_crop_batch("x", n, input_shape)
                  bt == BCEDiceLoss_crop_batch("target", n, input_shape)
              IN  UncroppedFormula(bx.returned, bt.returned,
                                   bx.crops \o bt.crops)
         ELSE IF softmax
              THEN SoftmaxBranch(n, input_shape)
              ELSE CroppedBranch(n, input_shape)
    ELSE UncroppedFormula(Whole("x"), Whole("target"), <<>>)

\* BCEDiceLoss.forward(x, target, input_shape, weights): which computation is
\* run, on which tensors
BCEDiceLoss_forward(crop, softmax, crop_batch, n, input_shape) ==
    IF crop
    THEN IF softmax
         THEN SoftmaxBranch(n, input_shape)
         ELSE IF crop_batch
              THEN LET bx == BCEDiceLoss_crop_batch("x", n, input_shape)
                       bt == BCEDiceLoss_crop_batch("target", n, input_shape)
                   IN  UncroppedFormula(bx.returned, bt.returned,
                                        bx.crops \o bt.crops)
              ELSE CroppedBranch(n, input_shape)
    ELSE UncroppedFormula(Whole("x"), Whole("target"), <<>>)

\* ---- the calls

\* a batch of n sample shapes as the pair (heights, widths)
InputShape(n, sh) == <<[i \in 1 .. n |-> sh[i][1]], [i \in 1 .. n |-> sh[i][2]]>>

\* the batch the helpers are called on: n samples and their shapes
Batches ==
    UNION {{[fn |-> "none", n |-> n, input_shape |-> InputShape(n, sh)] :
              sh \in [1 .. n -> Shapes]} : n \in 1 .. MaxBatch}

\* shape of sample i (0-based) of the batch
ShapeOf(c, i) == <<c.input_shape[1][i + 1], c.input_shape[2][i + 1]>>

\* BCELoss.forward crops sample i with _crop
CallBCELossCrop ==
    /\ call.fn = "none"
    /\ \E i \in 0 .. call.n - 1 :
         call' = [fn |-> "BCELoss._crop", n |-> 1,
                  input_shape |-> InputShape(1, <<ShapeOf(call, i)>>),
                  crops |-> <<BCELoss_crop(Sample("img", i), ShapeOf(call, i))>>]
    /\ UNCHANGED <<batchVars, mainVars>>

CallCropSingle ==
    /\ call.fn = "none"
    /\ \E i \in 0 .. call.n - 1 :
         call' = [fn |-> "BCEDiceLoss._crop_single", n |-> 1,
                  input_shape |-> InputShape(1, <<ShapeOf(call, i)>>),
                  crops |-> <<BCEDiceLoss_crop_single(Sample("img", i),
                                                      ShapeOf(call, i))>>]
    /\ UNCHANGED <<batchVars, mainVars>>

CallCropBatch ==
    /\ call.fn = "none"
    /\ LET r == BCEDiceLoss_crop_batch("img", call.n, call.input_shape)
       IN  call' = [fn |-> "BCEDiceLoss._crop_batch", n |-> call.n,
                    input_shape |-> call.input_shape,
                    crops |-> r.crops, returned |-> r.returned]
    /\ UNCHANGED <<batchVars, mainVars>>

CallForward ==
    /\ call.fn = "none"
    /\ \E crop, softmax, crop_batch \in BOOLEAN :
         call' = [fn |-> "BCEDiceLoss.forward", n |-> call.n,
                  crop |-> crop, softmax |-> softmax, crop_batch |-> crop_batch,
                  input_shape |-> call.input_shape,
                  result |-> BCEDiceLoss_forward(crop, softmax, crop_batch,
                                                 call.n, call.input_shape)]
    /\ UNCHANGED <<batchVars, mainVars>>

-----------------------------------------------------------------------------
(* src/Unet_/main.py: train() and validate() *)

\* exact fractions <<numerator, denominator>>, kept in lowest terms; the
\* losses are floating-point tensors and `loss /= len(outputs)` is a true
\* division
RECURSIVE Gcd(_, _)
Gcd(a, b) == IF b = 0 THEN a ELSE Gcd(b, a % b)
Frac(a, b) == IF a = 0 THEN <<0, 1>> ELSE <<a \div Gcd(a, b), b \div Gcd(a, b)>>
FracOfInt(a) == <<a, 1>>
FracGreater(a, b) == a[1] * b[2] > b[1] * a[2]

\* loss and IoU levels the criterion and iou_score can report for an output
Levels == 0 .. MaxLevel

\* what net(input) yields: with deep supervision a list of k >= 1 outputs,
\* otherwise one output.  An output is known by the values criterion(output,
\* target, input_shape) and iou_score(output, target, input_shape) have on it
Output == [criterion : Levels, iou_score : Levels]
NetOutputs(deep) ==
    IF deep
    THEN UNION {[1 .. k -> Output] : k \in 1 .. MaxOutputs}
    ELSE [1 .. 1 -> Output]

\* `loss = 0; for output in outputs: loss += criterion(output, ...)`
RECURSIVE SumCriterion(_, _)
SumCriterion(outs, upto) ==
    IF upto = 0 THEN 0 ELSE SumCriterion(outs, upto - 1) + outs[upto].criterion

\* train() with the IoU taken from the first output and the loss left as
\* the sum
train_forward_first_output(deep, outs) ==
    IF deep
    THEN [loss |-> FracOfInt(SumCriterion(outs, Len(outs))),
          ji |-> outs[1].iou_score]
    ELSE [loss |-> FracOfInt(outs[1].criterion), ji |-> outs[1].iou_score]

\* train(): the loss and the IoU of one batch
train_forward(deep, outs) ==
    IF deep
    THEN [loss |-> Frac(SumCriterion(outs, Len(outs)), Len(outs)),
          ji |-> outs[Len(outs)].iou_score]
    ELSE [loss |-> FracOfInt(outs[1].criterion), ji |-> outs[1].iou_score]

\* validate(): the loss and the IoU of one batch
validate_forward(deep, outs) ==
    IF deep
    THEN [loss |-> Frac(SumCriterion(outs, Len(outs)), Len(outs)),
          ji |-> outs[Len(outs)].iou_score]
    ELSE [loss |-> FracOfInt(outs[1].criterion), ji |-> outs[1].iou_score]

\* utils.AverageMeter: update(value, count) adds value * count to the sum and
\* count to the total; a new meter has sum, count and average zero
AverageMeterMethods == {"update"}
AverageMeter == [sum |-> <<0, 1>>, count |-> 0]
AverageMeter_update(m, val, n) ==
    [sum |-> Frac(m.sum[1] * val[2] + val[1] * n * m.sum[2], m.sum[2] * val[2]),
     count |-> m.count + n]
AverageMeter_avg(m) ==
    IF m.count = 0 THEN <<0, 1>> ELSE Frac(m.sum[1], m.sum[2] * m.count)

\* `avg_meters = {'loss' : AverageMeter(), 'JI' : AverageMeter()}`
NewAvgMeters == [loss |-> AverageMeter, JI |-> AverageMeter]

\* the ordered mappings returned
train_return(meters) ==
    [loss |-> AverageMeter_avg(meters["loss"]), ji |-> AverageMeter_avg(meters["JI"])]
validate_return(meters) ==
    [loss |-> AverageMeter_avg(meters["loss"]), ji |-> AverageMeter_avg(meters["JI"])]

NoReturn == [none |-> TRUE]

\* one iteration of `for input, target, info in train_loader`
TrainBatch ==
    /\ bpc = "loop" /\ mode = "train" /\ batches > 0
    /\ \E outs \in NetOutputs(deep_supervision), size \in 1 .. MaxBatch :
         LET f == train_forward(deep_supervision, outs)
         IN  /\ outputs' = outs
             /\ loss' = f.loss
             /\ ji' = f.ji
             \* optimizer.zero_grad(); loss.backward(); optimizer.step()
             /\ backward' = Append(backward, f.loss)
             \* avg_meters['loss'].upadate(...)
             /\ IF "upadate" \in AverageMeterMethods
                THEN /\ avg_meters' =
                          [avg_meters EXCEPT
                             !["loss"] = AverageMeter_update(@, f.loss, size),
                             !["JI"] = AverageMeter_update(@, FracOfInt(f.ji), size)]
                     /\ updates' = updates \o <<[key |-> "loss", val |-> f.loss],
                                                [key |-> "JI", val |-> FracOfInt(f.ji)]>>
                     /\ batches' = batches - 1
                     /\ UNCHANGED <<bpc, braised>>
                ELSE /\ bpc' = "raised"
                     /\ braised' = "AttributeError"
                     /\ UNCHANGED <<avg_meters, updates, batches>>
    /\ UNCHANGED <<mode, deep_supervision, ret, lossVars, mainVars>>

\* the loader is exhausted: `return OrderedDict([...])` of train()
TrainReturn ==
    /\ bpc = "loop" /\ mode = "train" /\ batches = 0
    /\ ret' = train_return(avg_meters)
    /\ bpc' = "returned"
    /\ UNCHANGED <<mode, deep_supervision, batches, outputs, loss, ji, backward,
                   avg_meters, updates, braised, lossVars, mainVars>>

\* one iteration of `for input, target, info in valid_loader`
ValidateBatch ==
    /\ bpc = "loop" /\ mode = "validate" /\ batches > 0
    /\ \E outs \in NetOutputs(deep_supervision), size \in 1 .. MaxBatch :
         LET f == validate_forward(deep_supervision, outs)
             \* avg_meters['loss'].update(loss.item(), input.size(0))
             m1 == [avg_meters EXCEPT !["loss"] = AverageMeter_update(@, f.loss, size)]
         IN  /\ outputs' = outs
             /\ loss' = f.loss
             /\ ji' = f.ji
             \* avg_meters['iou'].update(ji, input.size(0))
             /\ IF "iou" \in DOMAIN m1
                THEN /\ avg_meters' =
                          [m1 EXCEPT !["iou"] = AverageMeter_update(@, FracOfInt(f.ji), size)]
                     /\ updates' = updates \o <<[key |-> "loss", val |-> f.loss],
                                                [key |-> "iou", val |-> FracOfInt(f.ji)]>>
                     /\ batches' = batches - 1
                     /\ UNCHANGED <<bpc, braised>>
                ELSE /\ avg_meters' = m1
                     /\ updates' = Append(updates, [key |-> "loss", val |-> f.loss])
                     /\ bpc' = "raised"
                     /\ braised' = "KeyError"
                     /\ UNCHANGED batches
    /\ UNCHANGED <<mode, deep_supervision, backward, ret, lossVars, mainVars>>

\* the loader is exhausted: `return OrderedDict([...])` of validate()
ValidateReturn ==
    /\ bpc = "loop" /\ mode = "validate" /\ batches = 0
    /\ ret' = validate_return(avg_meters)
    /\ bpc' = "returned"
    /\ UNCHANGED <<mode, deep_supervision, batches, outputs, loss, ji, backward,
                   avg_meters, updates, braised, lossVars, mainVars>>

-----------------------------------------------------------------------------
(* src/Unet_/main.py: the epoch loop of main() *)

Schedulers == {"ReduceLROnPlateau", "CosineAnnealingLR", "MultiStepLR", "ConstantLR"}

\* `log = OrderedDict([('epoch', []), ('loss', []), ...])`
NewLog ==
    [epoch |-> <<>>, loss |-> <<>>, lr |-> <<>>, iou |-> <<>>,
     valid_loss |-> <<>>, valid_accuracy |-> <<>>]

\* The loop body works on the locals and files of main(), gathered in a
\* record; an exception ends the body where it is raised.
Raise(s, exc, line) == [s EXCEPT !.raised = exc, !.line = line]
Running(s) == s.raised = "none" /\ ~s.broke

\* lines 246-249: the scheduler is stepped for two of the four choices
StepScheduler(s) ==
    IF s.config.scheduler = "CosineAnnealingLR"
    THEN [s EXCEPT !.sched_calls = Append(@, [epoch |-> s.epoch, arg |-> <<>>])]
    ELSE IF s.config.scheduler = "ReduceLROnPlateau"
    THEN IF "loss" \in DOMAIN s.val_log
         THEN [s EXCEPT !.sched_calls =
                   Append(@, [epoch |-> s.epoch, arg |-> <<s.val_log["loss"]>>])]
         ELSE Raise(s, "KeyError", 249)
    ELSE s

\* lines 251-252: the summary line reads train_log['loss'], train_log['iou'],
\* val_log['loss'], val_log['iou'], in that order
PrintSummary(s) ==
    IF ~Running(s) THEN s
    ELSE IF {"loss", "iou"} \subseteq DOMAIN s.train_log
            /\ {"loss", "iou"} \subseteq DOMAIN s.val_log
         THEN s
         ELSE Raise(s, "KeyError", 252)

\* log[col].append(v)
AppendColumn(s, col, v, line) ==
    IF ~Running(s) THEN s
    ELSE IF col \in DOMAIN s.log
         THEN [s EXCEPT !.log[col] = Append(@, v)]
         ELSE Raise(s, "KeyError", line)

\* lines 254-259
AppendLog(s) ==
    LET s1 == AppendColumn(s, "epoch", s.epoch, 254)
        s2 == AppendColumn(s1, "lr", s.config.lr, 255)
        s3 == AppendColumn(s2, "loss", s.train_log["loss"], 256)
        s4 == AppendColumn(s3, "iou", s.train_log["iou"], 257)
        s5 == AppendColumn(s4, "val_loss", s.val_log["loss"], 258)
        s6 == AppendColumn(s5, "val_iou", s.val_log["iou"], 259)
    IN  IF Running(s) THEN s6 ELSE s

\* line 261: the whole log replaces log.csv
WriteCsv(s) ==
    IF ~Running(s) THEN s ELSE [s EXCEPT !.csv = s.log]

\* lines 263-269
Checkpoint(s) ==
    IF ~Running(s) THEN s
    ELSE LET t == [s EXCEPT !.trigger = @ + 1]
         IN  IF FracGreater(t.val_log["iou"], t.best_iou)
             THEN [t EXCEPT !.saves = Append(@, t.epoch),
                            !.best_iou = t.val_log["iou"],
                            !.trigger = 0]
             ELSE t

\* lines 271-274
EarlyStopping(s) ==
    IF ~Running(s) THEN s
    ELSE IF s.config.early_stopping >= 0 /\ s.trigger >= s.config.early_stopping
         THEN [s EXCEPT !.broke = TRUE]
         ELSE s

\* line 276
EmptyCache(s) ==
    IF ~Running(s) THEN s ELSE [s EXCEPT !.released = Append(@, s.epoch)]

\* lines 246-276, after the two passes of the epoch
EpochBody(s) ==
    EmptyCache(EarlyStopping(Checkpoint(WriteCsv(AppendLog(PrintSummary(
        StepScheduler(s)))))))

NoLog == [none |-> TRUE]

\* averages the meters of a pass can hold when it returns; the loop is
\* modelled for every pair of returned mappings, whatever the loaders hold
Averages == {FracOfInt(v) : v \in Levels}

\* one iteration of `for epoch in range(config['epochs'])`
Epoch ==
    /\ pc = "loop" /\ epoch < config.epochs
    /\ \E tl, tj, vl, vj \in Averages :
         LET s0 == [config |-> config, epoch |-> epoch, best_iou |-> best_iou,
                    trigger |-> trigger, log |-> log, csv |-> csv,
                    saves |-> saves, released |-> released,
                    sched_calls |-> sched_calls,
                    \* lines 242 and 244
                    train_log |-> train_return([loss |-> [sum |-> tl, count |-> 1],
                                                JI |-> [sum |-> tj, count |-> 1]]),
                    val_log |-> validate_return([loss |-> [sum |-> vl, count |-> 1],
                                                 JI |-> [sum |-> vj, count |-> 1]]),
                    raised |-> "none", line |-> 0, broke |-> FALSE]
             s == EpochBody(s0)
         IN  /\ val_hist' = Append(val_hist, vj[1])
             /\ train_log' = s.train_log
             /\ val_log' = s.val_log
             /\ best_iou' = s.best_iou
             /\ trigger' = s.trigger
             /\ log' = s.log
             /\ csv' = s.csv
             /\ saves' = s.saves
             /\ released' = s.released
             /\ sched_calls' = s.sched_calls
             /\ raised' = [exc |-> s.raised, line |-> s.line]
             /\ pc' = IF s.raised # "none" THEN "raised"
                      ELSE IF s.broke THEN "stopped" ELSE "loop"
             /\ epoch' = IF Running(s) THEN epoch + 1 ELSE epoch
    /\ UNCHANGED <<config, lossVars, batchVars>>

\* range(config['epochs']) is exhausted
LoopExit ==
    /\ pc = "loop" /\ epoch = config.epochs
    /\ pc' = "done"
    /\ UNCHANGED <<config, epoch, best_iou, trigger, log, csv, saves, released,
                   sched_calls, val_hist, raised, train_log, val_log,
                   lossVars, batchVars>>

-----------------------------------------------------------------------------
(* Specifications *)

LossIdle == call = [fn |-> "idle"]

BatchIdle ==
    /\ bpc = "idle" /\ mode = "none" /\ deep_supervision = FALSE
    /\ batches = 0 /\ outputs = <<>> /\ loss = <<0, 1>> /\ ji = 0
    /\ backward = <<>> /\ avg_meters = NewAvgMeters /\ updates = <<>>
    /\ ret = NoReturn /\ braised = "none"

\* `best_iou = 0`, `trigger = 0`, the empty log, nothing written yet
MainLocals ==
    /\ epoch = 0 /\ best_iou = <<0, 1>> /\ trigger = 0 /\ log = NewLog
    /\ csv = NoLog /\ saves = <<>> /\ released = <<>> /\ sched_calls = <<>>
    /\ val_hist = <<>> /\ raised = [exc |-> "none", line |-> 0]
    /\ train_log = NoReturn /\ val_log = NoReturn

MainIdle ==
    /\ pc = "idle"
    /\ config = [scheduler |-> "ConstantLR", early_stopping |-> -1,
                 epochs |-> 0, lr |-> "lr"]
    /\ MainLocals

InitLoss == call \in Batches /\ BatchIdle /\ MainIdle
NextLoss == CallBCELossCrop \/ CallCropSingle \/ CallCropBatch \/ CallForward
SpecLoss == InitLoss /\ [][NextLoss]_vars

\* a pass starts with fresh meters on a loader of some number of batches
InitBatch ==
    /\ LossIdle /\ MainIdle
    /\ bpc = "loop"
    /\ mode \in {"train", "validate"}
    /\ deep_supervision \in BOOLEAN
    /\ batches \in 0 .. MaxBatches
    /\ outputs = <<>> /\ loss = <<0, 1>> /\ ji = 0 /\ backward = <<>>
    /\ avg_meters = NewAvgMeters /\ updates = <<>> /\ ret = NoReturn
    /\ braised = "none"
NextBatch == TrainBatch \/ TrainReturn \/ ValidateBatch \/ ValidateReturn
SpecBatch == InitBatch /\ [][NextBatch]_vars

\* the loop is entered with the configuration of the run
InitMain ==
    /\ LossIdle /\ BatchIdle
    /\ pc = "loop"
    /\ config \in [scheduler : Schedulers,
                   early_stopping : -1 .. MaxPatience,
                   epochs : 0 .. MaxEpochs,
                   lr : {"lr"}]
    /\ MainLocals
NextMain == Epoch \/ LoopExit
SpecMain == InitMain /\ [][NextMain]_vars

-----------------------------------------------------------------------------
(* Properties of src/losses.py, checked under SpecLoss *)

CropHelpers == {"BCELoss._crop", "BCEDiceLoss._crop_single", "BCEDiceLoss._crop_batch"}

\* C6: for every sample size 0 < h <= 768, 0 < w <= 1024, every crop requested
\* by _crop, _crop_single and _crop_batch has the offsets
\* dh = floor((768 - h) / 2) >= 0 and dw = floor((1024 - w) / 2) >= 0 and asks
\* for exactly h by w; 512 x 768 gives dh = dw = 128.
C6_CropOffsets ==
    call.fn \in CropHelpers =>
        \A k \in 1 .. Len(call.crops) :
            LET r == call.crops[k]
                h == call.input_shape[1][k]
                w == call.input_shape[2][k]
            IN  (0 < h /\ h <= 768 /\ 0 < w /\ w <= 1024) =>
                    /\ r.dh = (768 - h) \div 2
                    /\ r.dw = (1024 - w) \div 2
                    /\ 0 <= r.dh /\ 0 <= r.dw
                    /\ r.height = h /\ r.width = w
                    /\ (h = 512 /\ w = 768) => (r.dh = 128 /\ r.dw = 128)

\* _crop_batch has cropped an odd-sized sample and the 512 x 768 example
C6_Witness ==
    /\ call.fn = "BCEDiceLoss._crop_batch"
    /\ Len(call.crops) = 2
    /\ ShapeOf(call, 0) = <<767, 1023>> /\ call.crops[1].dh = 0
    /\ ShapeOf(call, 1) = <<512, 768>> /\ call.crops[2].dw = 128

C10_CropBatchResult ==
    call.fn = "BCEDiceLoss._crop_batch" =>
        LET CropOf(i) == BCEDiceLoss_crop_single(Sample("img", i), ShapeOf(call, i))
        IN  /\ call.n = 1 => call.returned = Cropped(<<CropOf(0)>>)
            /\ call.n >= 2 => call.returned = Cropped(<<CropOf(0), CropOf(1)>>)

-----------------------------------------------------------------------------
(* Properties of train() and validate(), checked under SpecBatch *)

\* C7: with deep supervision and k >= 1 outputs, the loss of the batch is the
\* sum of the k per-output losses divided by k and its IoU is the metric of
\* the last output; train() back-propagates that loss and validate() feeds
\* it to its loss meter (the last update of that meter carries it).
C7_DeepSupervision ==
    (deep_supervision /\ outputs # <<>>) =>
        LET k == Len(outputs)
        IN  /\ loss[1] * k = loss[2] * SumCriterion(outputs, k)
            /\ ji = outputs[k].iou_score
            /\ mode = "train" =>
                   (backward # <<>> /\ backward[Len(backward)] = loss)
            /\ mode = "validate" =>
                   \E u \in 1 .. Len(updates) :
                       /\ updates[u] = [key |-> "loss", val |-> loss]
                       /\ \A v \in u + 1 .. Len(updates) : updates[v].key # "loss"

\* train() processed a batch of three outputs whose losses do not divide by
\* three and whose first and last IoU differ
C7_Witness ==
    /\ mode = "train" /\ deep_supervision
    /\ Len(outputs) = 3
    /\ outputs[1].iou_score # outputs[3].iou_score
    /\ loss[2] = 3
    /\ backward = <<loss>>

-----------------------------------------------------------------------------
(* Properties of the epoch loop of main(), checked under SpecMain *)

\* the largest of 0 and the first k validation IoUs
RECURSIVE BestOf(_, _)
BestOf(hist, k) ==
    IF k = 0 THEN 0
    ELSE IF hist[k] > BestOf(hist, k - 1) THEN hist[k] ELSE BestOf(hist, k - 1)

Saved(k) == \E i \in 1 .. Len(saves) : saves[i] = k

\* C1: model.pth is written at the end of epoch k exactly when the validation
\* IoU of epoch k is strictly greater than the best of 0 and the earlier
\* ones, and best_iou is the largest of 0 and the validation IoUs processed.
C1_CheckpointOnImprovement ==
    /\ \A k \in 1 .. Len(val_hist) :
           Saved(k - 1) <=> val_hist[k] > BestOf(val_hist, k - 1)
    /\ best_iou = FracOfInt(BestOf(val_hist, Len(val_hist)))

Ended == pc \in {"done", "stopped", "raised"}

\* C2: the loop ends before the configured number of epochs only when
\* early_stopping is non-negative and trigger has reached it; with a negative
\* early_stopping every configured epoch is run.
C2_EarlyStopping ==
    Ended =>
        /\ Len(val_hist) < config.epochs =>
               (config.early_stopping >= 0 /\ trigger >= config.early_stopping)
        /\ config.early_stopping < 0 => Len(val_hist) = config.epochs

LogColumns == {"epoch", "loss", "lr", "iou", "val_loss", "val_iou"}

\* epochs whose body ran to its end
Completed == IF pc = "raised" THEN Len(val_hist) - 1 ELSE Len(val_hist)

\* C3: each of the columns epoch, loss, lr, iou, val_loss and val_iou of the
\* log, and of log.csv once written, has one entry per completed epoch.
C3_LogLength ==
    Len(val_hist) > 0 =>
        \A c \in LogColumns :
            /\ c \in DOMAIN log
            /\ Len(log[c]) = Completed
            /\ Completed > 0 => (c \in DOMAIN csv /\ Len(csv[c]) = Completed)

\* C4: the cache is emptied at the end of every processed epoch, early
\* stopping or not.
C4_CacheReleased ==
    released = [k \in 1 .. Len(val_hist) |-> k - 1]

\* C5: after the validation pass of every epoch the scheduler has been
\* stepped once for CosineAnnealingLR, ReduceLROnPlateau (with the validation
\* loss) and MultiStepLR, and never for ConstantLR.
C5_SchedulerStepped ==
    IF config.scheduler = "ConstantLR"
    THEN sched_calls = <<>>
    ELSE /\ Len(sched_calls) = Len(val_hist)
         /\ \A k \in 1 .. Len(sched_calls) : sched_calls[k].epoch = k - 1
         /\ (config.scheduler = "ReduceLROnPlateau" /\ sched_calls # <<>>) =>
                sched_calls[Len(sched_calls)].arg = <<val_log["loss"]>>

\* C8: train() and validate() return mappings with exactly the keys loss and
\* iou, so the reads of the epoch summary succeed.
C8_ReturnKeys ==
    Len(val_hist) > 0 =>
        /\ DOMAIN train_log = {"loss", "iou"}
        /\ DOMAIN val_log = {"loss", "iou"}
        /\ raised.exc = "none"

====
